---- MODULE Spec2Model ----
(***************************************************************************)
(* A model of news_aggregator.py: the RSS aggregation run of main() and    *)
(* the pure helpers it is built from.                                      *)
(*                                                                         *)
(* Text is a sequence of characters.  A character is a one-element token:  *)
(* ASCII characters stand for themselves, a Hangul syllable is written by  *)
(* its romanisation ("jeong" is one character), "LF" is a newline.         *)
(* A point in time is a record [wall, off, us]: the wall-clock hour, the   *)
(* UTC offset in hours and the sub-second digit (microseconds).            *)
(***************************************************************************)
EXTENDS Integers, Sequences, FiniteSets, TLC

\* The longest feed a fetch returns, the largest limit the environment sets,
\* and the longest title guess_category is given.
MaxFeedLen == 2
MaxLimit == 2
MaxTitleLen == 3

VARIABLES
    pc,               \* position of main(): start, fetch, aggregated, enrich, save, done, exited, crashed
    environ,          \* os.environ["FETCH_FULLTEXT"]
    ENABLE_FULLTEXT,  \* module global, line 17
    config,           \* history: the configuration document that was read
    per_source_limit, \* main local, line 188
    total_limit,      \* main local, line 189
    sources,          \* main local, line 191
    idx,              \* the source the for loop of line 197 is at
    all_items,        \* main local, line 196
    items,            \* main local, line 210
    clock,            \* the wall clock now_kst() reads
    stderr,           \* what was printed to sys.stderr
    exit_status,      \* -1 while running, else the exit status of the process
    files,            \* the output directory and the rows written to each file
    fetched,          \* history: what each fetch_rss of the loop returned, or that it raised
    aggregated,       \* history: items as line 210 left them
    ft_limit,         \* enrich_fulltext local `limit`, line 140
    ft_i,             \* enrich_fulltext loop index `i`, line 141
    extract_log,      \* history: the trafilatura calls made, [pos, outcome]
    cat_in,           \* guess_category: its arguments
    cat_out,          \* guess_category: its result
    pt_in,            \* parse_time: its argument, and the clock
    pt_out            \* parse_time: its result

vars == <<pc, environ, ENABLE_FULLTEXT, config, per_source_limit, total_limit,
          sources, idx, all_items, items, clock, stderr, exit_status, files,
          fetched, aggregated, ft_limit, ft_i, extract_log,
          cat_in, cat_out, pt_in, pt_out>>

mainVars == <<pc, environ, ENABLE_FULLTEXT, config, per_source_limit,
              total_limit, sources, idx, all_items, items, clock, stderr,
              exit_status, files, fetched, aggregated, ft_limit, ft_i,
              extract_log>>

----------------------------------------------------------------------------
(* Python values *)

\* None, where a text is expected.  Texts are sequences, so None is the one
\* sequence no text is: a single token that is no character.
None == <<"None">>

\* Python truthiness of an optional text: None and "" are false.
Truthy(v) == v # None /\ v # <<>>

\* x or y
Or(x, y) == IF Truthy(x) THEN x ELSE y

\* s[:n] of a list, negative n counting from the end.
PySliceTo(s, n) ==
    IF n >= 0
    THEN SubSeq(s, 1, IF n < Len(s) THEN n ELSE Len(s))
    ELSE SubSeq(s, 1, IF Len(s) + n > 0 THEN Len(s) + n ELSE 0)

Whitespace == {" ", "LF", "TAB"}

RECURSIVE LStrip(_)
LStrip(s) ==
    IF s # <<>> /\ Head(s) \in Whitespace THEN LStrip(Tail(s)) ELSE s

RECURSIVE RStrip(_)
RStrip(s) ==
    IF s # <<>> /\ s[Len(s)] \in Whitespace
    THEN RStrip(SubSeq(s, 1, Len(s) - 1))
    ELSE s

\* str.strip()
Strip(s) == RStrip(LStrip(s))

\* str.lower(), on the ASCII letters the environment values use.
LowerChar(c) ==
    CASE c = "T" -> "t" [] c = "R" -> "r" [] c = "U" -> "u" [] c = "E" -> "e"
      [] c = "F" -> "f" [] c = "A" -> "a" [] c = "L" -> "l" [] c = "S" -> "s"
      [] OTHER -> c

Lower(s) == [i \in 1..Len(s) |-> LowerChar(s[i])]

\* w in text
Contains(text, w) ==
    \E i \in 0..(Len(text) - Len(w)) : SubSeq(text, i + 1, i + Len(w)) = w

\* "|".join(parts)
RECURSIVE Join(_)
Join(parts) ==
    IF parts = <<>> THEN <<>>
    ELSE IF Len(parts) = 1 THEN parts[1]
    ELSE parts[1] \o <<"|">> \o Join(Tail(parts))

----------------------------------------------------------------------------
(* Time: KST, now_kst, parse_time, isoformat *)

KST == 9

now_kst(clk) == [wall |-> clk, off |-> KST, us |-> 5]

\* datetime.astimezone(tz): the same instant, on the wall clock of tz.
astimezone(d, tz) == [wall |-> d.wall - d.off + tz, off |-> tz, us |-> d.us]

\* The candidates of an entry.  A date field is [kind, wall, off, us] with
\* kind "none" (no such key), "empty" (a falsy value: "" or ()), "bad" (the
\* parser or the datetime constructor raises) or "ok".
NoDate == [kind |-> "none", wall |-> 0, off |-> 0, us |-> 0]
EmptyDate == [kind |-> "empty", wall |-> 0, off |-> 0, us |-> 0]
BadDate == [kind |-> "bad", wall |-> 0, off |-> 0, us |-> 0]
OkDate(w, o, u) == [kind |-> "ok", wall |-> w, off |-> o, us |-> u]

\* A faulty order of the date strings: `updated` is tried first.
DateStringKeys_updated_first == <<"updated", "published", "pubDate">>

DateStringKeys == <<"published", "updated", "pubDate">>
StructKeys == <<"published_parsed", "updated_parsed">>

\* `if val:` of lines 30 and 37
DateTruthy(val) == val.kind \notin {"none", "empty"}

\* dtparser.parse(val) and datetime(*val[:6], ...) raise on a bad value.
Raises(val) == val.kind = "bad"

\* dtparser.parse(val): the datetime the string denotes, with its own offset.
dtparser_parse(val) == [wall |-> val.wall, off |-> val.off, us |-> val.us]

\* datetime(*val[:6], tzinfo=timezone.utc): the tuple read as UTC, whole seconds.
datetime_utc(val) == [wall |-> val.wall, off |-> 0, us |-> 0]

NotFound == [found |-> FALSE, raised |-> FALSE, at |-> [wall |-> 0, off |-> 0, us |-> 0]]
Found(d) == [found |-> TRUE, raised |-> FALSE, at |-> d]
Propagated == [found |-> FALSE, raised |-> TRUE, at |-> [wall |-> 0, off |-> 0, us |-> 0]]

\* `except Exception: pass` of lines 33 and 40: whether the handler takes
\* what the attempt on val raised.
except_Exception(val) == TRUE

\* The loop of lines 28-34, from candidate i on.
RECURSIVE TryDateStrings(_, _)
TryDateStrings(entry, i) ==
    IF i > Len(DateStringKeys) THEN NotFound
    ELSE LET val == entry[DateStringKeys[i]]
         IN  IF ~DateTruthy(val) THEN TryDateStrings(entry, i + 1)
             ELSE IF ~Raises(val) THEN Found(astimezone(dtparser_parse(val), KST))
             ELSE IF except_Exception(val) THEN TryDateStrings(entry, i + 1)
             ELSE Propagated

\* The loop of lines 35-41, from candidate i on.
RECURSIVE TryStructs(_, _)
TryStructs(entry, i) ==
    IF i > Len(StructKeys) THEN NotFound
    ELSE LET val == entry[StructKeys[i]]
         IN  IF ~DateTruthy(val) THEN TryStructs(entry, i + 1)
             ELSE IF ~Raises(val) THEN Found(astimezone(datetime_utc(val), KST))
             ELSE IF except_Exception(val) THEN TryStructs(entry, i + 1)
             ELSE Propagated

\* What parse_time ends in when an exception leaves it.
Raised == [wall |-> -2, off |-> 0, us |-> 0]

parse_time(entry, clk) ==
    LET s == TryDateStrings(entry, 1)
        t == TryStructs(entry, 1)
    IN  IF s.raised THEN Raised
        ELSE IF s.found THEN s.at
        ELSE IF t.raised THEN Raised
        ELSE IF t.found THEN t.at
        ELSE now_kst(clk)

Digit(n) ==
    CASE n = 0 -> "0" [] n = 1 -> "1" [] n = 2 -> "2" [] n = 3 -> "3"
      [] n = 4 -> "4" [] n = 5 -> "5" [] n = 6 -> "6" [] n = 7 -> "7"
      [] n = 8 -> "8" [] n = 9 -> "9"

\* datetime.isoformat(): the wall clock zero-padded, the fraction only when
\* it is not zero, then the offset.
isoformat(d) ==
    <<Digit(d.wall \div 10), Digit(d.wall % 10)>>
    \o (IF d.us = 0 THEN <<>> ELSE <<".", Digit(d.us)>>)
    \o <<(IF d.off >= 0 THEN "+" ELSE "-"),
         Digit((IF d.off >= 0 THEN d.off ELSE -d.off) \div 10),
         Digit((IF d.off >= 0 THEN d.off ELSE -d.off) % 10)>>

\* ord(c), for the characters of an ISO string.
Ord(c) ==
    CASE c = "+" -> 43 [] c = "-" -> 45 [] c = "." -> 46
      [] c = "0" -> 48 [] c = "1" -> 49 [] c = "2" -> 50 [] c = "3" -> 51
      [] c = "4" -> 52 [] c = "5" -> 53 [] c = "6" -> 54 [] c = "7" -> 55
      [] c = "8" -> 56 [] c = "9" -> 57

\* a < b on str: the first differing character decides, a proper prefix is less.
RECURSIVE StrLess(_, _)
StrLess(a, b) ==
    IF b = <<>> THEN FALSE
    ELSE IF a = <<>> THEN TRUE
    ELSE IF Head(a) # Head(b) THEN Ord(Head(a)) < Ord(Head(b))
    ELSE StrLess(Tail(a), Tail(b))

----------------------------------------------------------------------------
(* Text: clean_text, sha1 *)

\* The index of the ">" closing a tag opened at i, or 0: `<.*?>` takes the
\* first ">" after i, and "." matches no newline.
TagEnd(s, i) ==
    LET closers == {j \in (i + 1)..Len(s) : s[j] = ">"}
        first == CHOOSE j \in closers : \A k \in closers : j <= k
    IN  IF closers = {} THEN 0
        ELSE IF \E k \in (i + 1)..(first - 1) : s[k] = "LF" THEN 0
        ELSE first

\* re.sub(r"<.*?>", "", s), scanning from i.
RECURSIVE RemoveTags(_, _)
RemoveTags(s, i) ==
    IF i > Len(s) THEN <<>>
    ELSE IF s[i] = "<" /\ TagEnd(s, i) # 0 THEN RemoveTags(s, TagEnd(s, i) + 1)
    ELSE <<s[i]>> \o RemoveTags(s, i + 1)

\* re.sub(r"\s+", " ", s)
RECURSIVE CollapseSpace(_)
CollapseSpace(s) ==
    IF s = <<>> THEN <<>>
    ELSE IF Head(s) \in Whitespace
         THEN <<" ">> \o CollapseSpace(LStrip(s))
         ELSE <<Head(s)>> \o CollapseSpace(Tail(s))

clean_text(html_or_text) ==
    IF ~Truthy(html_or_text) THEN <<>>
    ELSE Strip(CollapseSpace(RemoveTags(html_or_text, 1)))

\* hashlib.sha1 over the joined parts, as a hex digest.  The digest is taken
\* to be collision free: it is the tagged input.  A prefix of a digest
\* is tagged with its length.
sha1(parts) == <<"sha1">> \o Join(parts)

HexPrefix(digest, n) == <<"hex", Digit(n \div 10), Digit(n % 10)>> \o Tail(digest)

----------------------------------------------------------------------------
(* Labelling: guess_category, make_tags *)

POLITICS_KW == <<
    <<"jeong", "chi">>, <<"dae", "tong", "ryeong">>, <<"guk", "hoe">>,
    <<"chong", "seon">>, <<"jang", "gwan">>, <<"yeo", "dang">>,
    <<"ya", "dang">>, <<"cheong", "wa", "dae">>, <<"oe", "gyo">>,
    <<"an", "bo">>, <<"buk", "han">> >>

ECONOMY_KW == <<
    <<"gyeong", "je">>, <<"jeung", "si">>, <<"ko", "seu", "pi">>,
    <<"hwan", "yul">>, <<"geum", "ri">>, <<"mul", "ga">>, <<"su", "chul">>,
    <<"mu", "yeok">>, <<"bu", "dong", "san">>, <<"chae", "gwon">>,
    <<"won", "dal", "reo">> >>

SOCIETY_KW == <<
    <<"sa", "hoe">>, <<"sa", "geon">>, <<"sa", "go">>, <<"chi", "an">>,
    <<"no", "dong">>, <<"gyo", "yuk">>, <<"bok", "ji">>, <<"bo", "geon">>,
    <<"ui", "ryo">>, <<"beop", "won">>, <<"geom", "chal">> >>

CULTURE_KW == <<
    <<"mun", "hwa">>, <<"yeong", "hwa">>, <<"eum", "ak">>,
    <<"gong", "yeon">>, <<"jeon", "si">>, <<"mun", "hak">>, <<"ye", "sul">>,
    <<"deu", "ra", "ma">>, <<"bang", "song">>, <<"yeon", "ye">> >>

ITSCI_KW == <<
    <<"I", "T">>, <<"gwa", "hak">>, <<"A", "I">>,
    <<"in", "gong", "ji", "neung">>, <<"ban", "do", "che">>,
    <<"seu", "ta", "teu", "eop">>, <<"keul", "ra", "u", "deu">>,
    <<"bo", "an">>, <<"ge", "im">>, <<"tong", "sin">>,
    <<"so", "peu", "teu", "we", "eo">> >>

SPORTS_KW == <<
    <<"seu", "po", "cheu">>, <<"chuk", "gu">>, <<"ya", "gu">>,
    <<"nong", "gu">>, <<"bae", "gu">>, <<"gol", "peu">>,
    <<"ol", "rim", "pik">>, <<"dae", "pyo", "tim">>, <<"K", "ri", "geu">>,
    <<"K", "B", "O">>, <<"N", "B", "A">> >>

\* any(w in text for w in words)
hit(text, words) == \E k \in 1..Len(words) : Contains(text, words[k])

\* A faulty guess_category: the society keywords are tested before the
\* politics ones.
guess_category_society_first(title, summary, src_category) ==
    IF Truthy(src_category) THEN src_category
    ELSE LET text == title \o <<" ">> \o summary
         IN  IF hit(text, SOCIETY_KW) THEN <<"society">>
             ELSE IF hit(text, POLITICS_KW) THEN <<"politics">>
             ELSE IF hit(text, ECONOMY_KW) THEN <<"economy">>
             ELSE IF hit(text, CULTURE_KW) THEN <<"culture">>
             ELSE IF hit(text, ITSCI_KW) THEN <<"it_science">>
             ELSE IF hit(text, SPORTS_KW) THEN <<"sports">>
             ELSE <<"general">>

guess_category(title, summary, src_category) ==
    IF Truthy(src_category) THEN src_category
    ELSE LET text == title \o <<" ">> \o summary
         IN  IF hit(text, POLITICS_KW) THEN <<"politics">>
             ELSE IF hit(text, ECONOMY_KW) THEN <<"economy">>
             ELSE IF hit(text, SOCIETY_KW) THEN <<"society">>
             ELSE IF hit(text, CULTURE_KW) THEN <<"culture">>
             ELSE IF hit(text, ITSCI_KW) THEN <<"it_science">>
             ELSE IF hit(text, SPORTS_KW) THEN <<"sports">>
             ELSE <<"general">>

BREAKING_KW == << <<"sok", "bo">>, <<"dan", "dok">>, <<"gin", "geup">> >>
ANALYSIS_KW == << <<"hae", "seol">>, <<"bun", "seok">>, <<"sim", "cheung">> >>
OPINION_KW == << <<"sa", "seol">>, <<"kal", "reom">>, <<"o", "pi", "ni", "eon">> >>

ShortTitleLen == 25

\* The tags in sorted() order: analysis < breaking < opinion < short_title.
make_tags(title, summary) ==
    LET t == title \o <<" ">> \o summary
    IN  (IF hit(t, ANALYSIS_KW) THEN <<"analysis">> ELSE <<>>)
        \o (IF hit(t, BREAKING_KW) THEN <<"breaking">> ELSE <<>>)
        \o (IF hit(t, OPINION_KW) THEN <<"opinion">> ELSE <<>>)
        \o (IF Len(title) <= ShortTitleLen THEN <<"short_title">> ELSE <<>>)

----------------------------------------------------------------------------
(* Collection: load_sources, fetch_rss, fetch_fulltext *)

\* dict.get(key): None when the mapping has no such key.
Get(d, key) == IF key \in DOMAIN d THEN d[key] ELSE None

\* The configuration document at SOURCES_FILE: whether the file exists,
\* whether yaml.safe_load returns None for it, whether the mapping has a
\* `sources` key, and the list under it.
YamlA == [name |-> <<"A">>, url |-> <<"a">>]
YamlB == [name |-> <<"B">>, url |-> <<"b">>, category |-> <<"custom">>]

Doc(e, n, h, l) == [exists |-> e, null |-> n, has_sources |-> h, sources |-> l]

NoFile == Doc(FALSE, FALSE, FALSE, <<>>)
EmptyFile == Doc(TRUE, TRUE, FALSE, <<>>)
NoSourcesKey == Doc(TRUE, FALSE, FALSE, <<>>)
EmptySources == Doc(TRUE, FALSE, TRUE, <<>>)

Docs == {NoFile, EmptyFile, NoSourcesKey, EmptySources,
         Doc(TRUE, FALSE, TRUE, <<YamlA>>),
         Doc(TRUE, FALSE, TRUE, <<YamlA, YamlB>>)}

\* open(path) of line 90 raises when there is no file.
load_sources_raises(doc) == ~doc.exists

load_sources(doc) ==
    LET listed == IF doc.null \/ ~doc.has_sources THEN <<>> ELSE doc.sources
    IN  [k \in 1..Len(listed) |->
            [name |-> Get(listed[k], "name"),
             url |-> Get(listed[k], "url"),
             category |-> Get(listed[k], "category")]]

\* A feed entry: the text fields (None when the key is absent) and the five
\* date candidates.
Entry(t, l, s, pub, upd) ==
    [title |-> t, link |-> l, summary |-> s, description |-> None,
     published |-> pub, updated |-> upd, pubDate |-> NoDate,
     published_parsed |-> NoDate, updated_parsed |-> NoDate]

\* The entries the feeds are made of: one dated with a UTC offset, the same
\* title and link again (padded) an hour later, one with no link and no date,
\* and one whose first date does not parse.
FeedEntries ==
    {Entry(<<"jeong", "chi">>, <<"u">>, <<"<", "b", ">", "sok", "bo">>,
           OkDate(10, 0, 0), NoDate),
     Entry(<<" ", "jeong", "chi">>, <<"u">>, None, OkDate(20, 9, 0), NoDate),
     Entry(<<"x">>, None, None, NoDate, NoDate),
     Entry(<<"x">>, <<"u", " ">>, None, BadDate, OkDate(19, 9, 0))}

BoundedSeq(S, n) == UNION {[1..k -> S] : k \in 0..n}

\* What a fetch can return: up to MaxFeedLen entries, each listed once.
Feeds ==
    {f \in BoundedSeq(FeedEntries, MaxFeedLen) :
        \A i, j \in 1..Len(f) : i # j => f[i] # f[j]}

\* Lines 105-123, for one entry.
fetch_rss_item(src, e, clk) ==
    LET title == Strip(Or(e.title, <<>>))
        link == Strip(Or(e.link, <<>>))
        summary == clean_text(Or(Or(e.summary, e.description), <<>>))
        published_at == parse_time(e, clk)
    IN  [id |-> HexPrefix(sha1(<<title, link>>), 16),
         source_name |-> src.name,
         source_url |-> src.url,
         url |-> link,
         title |-> title,
         summary |-> summary,
         published_at |-> isoformat(published_at),
         fetched_at |-> isoformat(now_kst(clk)),
         language |-> <<"ko">>,
         category |-> guess_category(title, summary, src.category),
         tags |-> make_tags(title, summary)]

fetch_rss(src, feed, clk) ==
    [k \in 1..Len(feed) |-> fetch_rss_item(src, feed[k], clk)]

\* What the extraction of one URL can end in: trafilatura raises, fetch_url
\* returns nothing, extract returns None, blank text, or a body.
ExtractOutcomes == {"raise", "no_download", "no_text", "blank", "body"}

ExtractedText(outcome) ==
    IF outcome = "blank" THEN <<" ", "LF">> ELSE <<" ", "b", "o", "d", "y", "LF">>

\* Whether fetch_fulltext reaches trafilatura.fetch_url (line 130).
fetch_fulltext_calls(enabled) == enabled

fetch_fulltext(enabled, outcome) ==
    IF ~enabled THEN None
    ELSE IF outcome \in {"raise", "no_download"} THEN None
    ELSE IF outcome = "no_text" THEN None
    ELSE IF Strip(ExtractedText(outcome)) = <<>> THEN None
    ELSE Strip(ExtractedText(outcome))

\* A faulty loop test: `if i > limit: break`.
enrich_continues_past_limit(i, n, limit) == i < n /\ ~(i > limit)

\* Lines 141-143: whether the loop of enrich_fulltext takes item i of n.
enrich_continues(i, n, limit) == i < n /\ ~(i >= limit)

----------------------------------------------------------------------------
(* Ordering: list.sort / sorted by published_at, reverse=True *)

\* A faulty insertion: x goes before the elements of its own key, as when
\* an ascending sort is reversed.
RECURSIVE InsertDesc_before_equal(_, _)
InsertDesc_before_equal(s, x) ==
    IF s = <<>> THEN <<x>>
    ELSE IF ~StrLess(x.published_at, Head(s).published_at) THEN <<x>> \o s
    ELSE <<Head(s)>> \o InsertDesc_before_equal(Tail(s), x)

\* x placed into s, which is in descending order: after every element that
\* is not less than x, so that equal keys keep their order.
RECURSIVE InsertDesc(_, _)
InsertDesc(s, x) ==
    IF s = <<>> THEN <<x>>
    ELSE IF StrLess(Head(s).published_at, x.published_at) THEN <<x>> \o s
    ELSE <<Head(s)>> \o InsertDesc(Tail(s), x)

RECURSIVE SortByPublishedDesc(_)
SortByPublishedDesc(s) ==
    IF s = <<>> THEN <<>>
    ELSE InsertDesc(SortByPublishedDesc(SubSeq(s, 1, Len(s) - 1)), s[Len(s)])

\* uniq.setdefault(it["id"], it) over s, then list(uniq.values()).
RECURSIVE DedupById(_, _)
DedupById(s, seen) ==
    IF s = <<>> THEN <<>>
    ELSE IF Head(s).id \in seen THEN DedupById(Tail(s), seen)
    ELSE <<Head(s)>> \o DedupById(Tail(s), seen \cup {Head(s).id})

\* A faulty turn of the loop: the fetched items are not cut to the limit.
main_collect_uncut(all, outcome, limit) ==
    IF outcome.ok
    THEN all \o SortByPublishedDesc(outcome.items)
    ELSE all

\* A faulty turn of the loop: all_items is emptied when the fetch raises.
main_collect_lost_on_error(all, outcome, limit) ==
    IF outcome.ok
    THEN all \o PySliceTo(SortByPublishedDesc(outcome.items), limit)
    ELSE <<>>

\* Lines 199-204, one turn of the loop: what all_items is afterwards, the
\* outcome being what fetch_rss returned or that it raised.
main_collect(all, outcome, limit) ==
    IF outcome.ok
    THEN all \o PySliceTo(SortByPublishedDesc(outcome.items), limit)
    ELSE all

\* A faulty aggregation: no sort before the ids are made unique.
main_aggregate_unsorted(all, limit) ==
    PySliceTo(DedupById(all, {}), limit)

\* A faulty aggregation: the ids are made unique before the sort.
main_aggregate_dedup_first(all, limit) ==
    PySliceTo(SortByPublishedDesc(DedupById(all, {})), limit)

\* Lines 207-210.
main_aggregate(all, limit) ==
    PySliceTo(DedupById(SortByPublishedDesc(all), {}), limit)

----------------------------------------------------------------------------
(* Storage: to_frame *)

Columns == <<"id", "source_name", "source_url", "url", "title", "summary",
             "content", "category", "tags", "language", "published_at",
             "fetched_at">>

\* it.setdefault("content", None); it.setdefault("tags", [])
SetDefaults(it) ==
    [f \in DOMAIN it \cup {"content", "tags"} |->
        IF f \in DOMAIN it THEN it[f]
        ELSE IF f = "content" THEN None ELSE <<>>]

\* One row of pd.DataFrame(items, columns=cols).
Row(it) == [f \in {Columns[k] : k \in 1..Len(Columns)} |-> Get(it, f)]

to_frame(its) ==
    DedupById([k \in 1..Len(its) |-> Row(SetDefaults(its[k]))], {})

----------------------------------------------------------------------------
(* main *)

\* The values FETCH_FULLTEXT is given.
FetchFulltextValues ==
    {<<"t", "r", "u", "e">>, <<"T", "r", "u", "e">>,
     <<"f", "a", "l", "s", "e">>, <<"1">>}

\* A faulty reading of the flag: on unless the value is "false".
enable_fulltext_unless_false(value) == Lower(value) # <<"f", "a", "l", "s", "e">>

\* Line 17.
enable_fulltext(value) == Lower(value) = <<"t", "r", "u", "e">>

\* The values PER_SOURCE_LIMIT, TOTAL_LIMIT and FULLTEXT_LIMIT are given:
\* int() takes any integer.
Limits == -1..MaxLimit

NoFiles == [dir_made |-> FALSE, written |-> FALSE, jsonl |-> <<>>, parquet |-> <<>>]

Pending == [wall |-> -1, off |-> 0, us |-> 0]

IdleCat == [title |-> <<>>, summary |-> <<>>, src_category |-> None]

IdleTime ==
    [entry |-> [published |-> NoDate, updated |-> NoDate, pubDate |-> NoDate,
                published_parsed |-> NoDate, updated_parsed |-> NoDate],
     clock |-> 0]

HelpersIdle ==
    /\ cat_in = IdleCat
    /\ cat_out = None
    /\ pt_in = IdleTime
    /\ pt_out = Pending

MainIdle ==
    /\ pc = "start"
    /\ config = NoFile
    /\ per_source_limit = 0
    /\ total_limit = 0
    /\ sources = <<>>
    /\ idx = 0
    /\ all_items = <<>>
    /\ items = <<>>
    /\ clock = 19
    /\ stderr = <<>>
    /\ exit_status = -1
    /\ files = NoFiles
    /\ fetched = <<>>
    /\ aggregated = <<>>
    /\ ft_limit = 0
    /\ ft_i = 0
    /\ extract_log = <<>>

Init ==
    /\ environ \in FetchFulltextValues
    /\ ENABLE_FULLTEXT = enable_fulltext(environ)
    /\ MainIdle
    /\ HelpersIdle

\* Lines 186-191 when SOURCES_FILE names no file: open() raises, nothing
\* catches it, the interpreter prints the traceback and exits with status 1.
LoadRaises ==
    /\ pc = "start"
    /\ \E doc \in Docs, psl \in Limits, tl \in Limits :
        /\ load_sources_raises(doc)
        /\ config' = doc
        /\ per_source_limit' = psl
        /\ total_limit' = tl
    /\ stderr' = Append(stderr, [kind |-> "traceback", name |-> <<"FileNotFoundError">>])
    /\ exit_status' = 1
    /\ pc' = "crashed"
    /\ UNCHANGED <<environ, ENABLE_FULLTEXT, sources, idx, all_items, items,
                   clock, files, fetched, aggregated, ft_limit, ft_i, extract_log,
                   cat_in, cat_out, pt_in, pt_out>>

\* Lines 186-194 when load_sources returns an empty list.
LoadNoSources ==
    /\ pc = "start"
    /\ \E doc \in Docs, psl \in Limits, tl \in Limits :
        /\ ~load_sources_raises(doc)
        /\ load_sources(doc) = <<>>
        /\ config' = doc
        /\ per_source_limit' = psl
        /\ total_limit' = tl
        /\ sources' = load_sources(doc)
    /\ stderr' = Append(stderr, [kind |-> "no_sources", name |-> <<>>])
    /\ exit_status' = 1
    /\ pc' = "exited"
    /\ UNCHANGED <<environ, ENABLE_FULLTEXT, idx, all_items, items,
                   clock, files, fetched, aggregated, ft_limit, ft_i, extract_log,
                   cat_in, cat_out, pt_in, pt_out>>

\* Lines 186-196 when there are sources.
LoadSources ==
    /\ pc = "start"
    /\ \E doc \in Docs, psl \in Limits, tl \in Limits :
        /\ ~load_sources_raises(doc)
        /\ load_sources(doc) # <<>>
        /\ config' = doc
        /\ per_source_limit' = psl
        /\ total_limit' = tl
        /\ sources' = load_sources(doc)
    /\ idx' = 1
    /\ all_items' = <<>>
    /\ pc' = "fetch"
    /\ UNCHANGED <<environ, ENABLE_FULLTEXT, items, clock, stderr, exit_status,
                   files, fetched, aggregated, ft_limit, ft_i, extract_log,
                   cat_in, cat_out, pt_in, pt_out>>

\* Lines 197-202: the fetch of sources[idx] returns a feed.
FetchSource ==
    /\ pc = "fetch"
    /\ idx <= Len(sources)
    /\ \E feed \in Feeds :
        LET outcome == [ok |-> TRUE, items |-> fetch_rss(sources[idx], feed, clock)]
        IN  /\ all_items' = main_collect(all_items, outcome, per_source_limit)
            /\ fetched' = Append(fetched, outcome)
    /\ idx' = idx + 1
    /\ clock' = clock + 1
    /\ UNCHANGED <<pc, environ, ENABLE_FULLTEXT, config, per_source_limit,
                   total_limit, sources, items, stderr, exit_status, files,
                   aggregated, ft_limit, ft_i, extract_log,
                   cat_in, cat_out, pt_in, pt_out>>

\* Lines 197-204: the fetch of sources[idx] raises.
FetchFails ==
    /\ pc = "fetch"
    /\ idx <= Len(sources)
    /\ LET outcome == [ok |-> FALSE, items |-> <<>>]
       IN  /\ all_items' = main_collect(all_items, outcome, per_source_limit)
           /\ fetched' = Append(fetched, outcome)
    /\ stderr' = Append(stderr, [kind |-> "warn", name |-> sources[idx].name])
    /\ idx' = idx + 1
    /\ clock' = clock + 1
    /\ UNCHANGED <<pc, environ, ENABLE_FULLTEXT, config, per_source_limit,
                   total_limit, sources, items, exit_status, files,
                   aggregated, ft_limit, ft_i, extract_log,
                   cat_in, cat_out, pt_in, pt_out>>

\* Lines 206-210, once the loop is over.
Aggregate ==
    /\ pc = "fetch"
    /\ idx > Len(sources)
    /\ items' = main_aggregate(all_items, total_limit)
    /\ aggregated' = main_aggregate(all_items, total_limit)
    /\ pc' = "aggregated"
    /\ UNCHANGED <<environ, ENABLE_FULLTEXT, config, per_source_limit,
                   total_limit, sources, idx, all_items, clock, stderr,
                   exit_status, files, fetched, ft_limit, ft_i, extract_log,
                   cat_in, cat_out, pt_in, pt_out>>

\* Lines 213-214 and 140: enrich_fulltext is entered and reads FULLTEXT_LIMIT.
\* all_items is not read again, and the record of the fetches ends here.
EnrichBegin ==
    /\ pc = "aggregated"
    /\ ENABLE_FULLTEXT
    /\ ft_limit' \in Limits
    /\ ft_i' = 0
    /\ all_items' = <<>>
    /\ fetched' = <<>>
    /\ pc' = "enrich"
    /\ UNCHANGED <<environ, ENABLE_FULLTEXT, config, per_source_limit,
                   total_limit, sources, idx, items, clock, stderr,
                   exit_status, files, aggregated, extract_log,
                   cat_in, cat_out, pt_in, pt_out>>

\* Lines 141-147, one turn of the loop: items[ft_i] is looked at.
EnrichItem ==
    /\ pc = "enrich"
    /\ enrich_continues(ft_i, Len(items), ft_limit)
    /\ LET it == items[ft_i + 1]
       IN  IF Truthy(Get(it, "url"))
           THEN \E outcome \in ExtractOutcomes :
                LET body == fetch_fulltext(ENABLE_FULLTEXT, outcome)
                IN  /\ extract_log' =
                           IF fetch_fulltext_calls(ENABLE_FULLTEXT)
                           THEN Append(extract_log, [pos |-> ft_i, outcome |-> outcome])
                           ELSE extract_log
                    /\ items' = IF Truthy(body)
                                THEN [items EXCEPT ![ft_i + 1] = [content |-> body] @@ it]
                                ELSE items
           ELSE UNCHANGED <<items, extract_log>>
    /\ ft_i' = ft_i + 1
    /\ UNCHANGED <<pc, environ, ENABLE_FULLTEXT, config, per_source_limit,
                   total_limit, sources, idx, all_items, clock, stderr,
                   exit_status, files, fetched, aggregated, ft_limit,
                   cat_in, cat_out, pt_in, pt_out>>

\* Lines 141-143: the loop ends, at the limit or at the end of the list.
EnrichEnd ==
    /\ pc = "enrich"
    /\ ~enrich_continues(ft_i, Len(items), ft_limit)
    /\ pc' = "save"
    /\ UNCHANGED <<environ, ENABLE_FULLTEXT, config, per_source_limit,
                   total_limit, sources, idx, all_items, items, clock, stderr,
                   exit_status, files, fetched, aggregated, ft_limit, ft_i,
                   extract_log, cat_in, cat_out, pt_in, pt_out>>

\* Lines 216-223: the directory is made, the frame is built and written
\* twice, and main returns.
Save ==
    /\ \/ pc = "save"
       \/ pc = "aggregated" /\ ~ENABLE_FULLTEXT
    /\ items' = [k \in 1..Len(items) |-> SetDefaults(items[k])]
    /\ files' = [dir_made |-> TRUE, written |-> TRUE,
                 jsonl |-> to_frame(items), parquet |-> to_frame(items)]
    /\ all_items' = <<>>
    /\ fetched' = <<>>
    /\ exit_status' = 0
    /\ pc' = "done"
    /\ UNCHANGED <<environ, ENABLE_FULLTEXT, config, per_source_limit,
                   total_limit, sources, idx, clock, stderr, aggregated,
                   ft_limit, ft_i, extract_log, cat_in, cat_out, pt_in, pt_out>>

Next ==
    \/ LoadRaises
    \/ LoadNoSources
    \/ LoadSources
    \/ FetchSource
    \/ FetchFails
    \/ Aggregate
    \/ EnrichBegin
    \/ EnrichItem
    \/ EnrichEnd
    \/ Save

Spec == Init /\ [][Next]_vars

----------------------------------------------------------------------------
(* guess_category on its own *)

TitleChars == {"jeong", "chi", "an", "bo", "ya", "gu"}

CatTitles == BoundedSeq(TitleChars, MaxTitleLen)

CatSummaries ==
    {<<>>, <<"x">>, <<"gyeong", "je">>, <<"mun", "hwa">>, <<"chi", "an">>}

\* The `category` of a source: no key, an empty string, a label outside the
\* closed set, and a label of the closed set.
CatOverrides == {None, <<>>, <<"custom">>, <<"general">>}

InitCat ==
    /\ environ = <<"f", "a", "l", "s", "e">>
    /\ ENABLE_FULLTEXT = enable_fulltext(environ)
    /\ MainIdle
    /\ cat_in \in [title : CatTitles, summary : CatSummaries,
                   src_category : CatOverrides]
    /\ cat_out = None
    /\ pt_in = IdleTime
    /\ pt_out = Pending

GuessCategory ==
    /\ cat_out = None
    /\ cat_out' = guess_category(cat_in.title, cat_in.summary, cat_in.src_category)
    /\ UNCHANGED <<mainVars, cat_in, pt_in, pt_out>>

NextCat == GuessCategory

SpecCat == InitCat /\ [][NextCat]_vars

----------------------------------------------------------------------------
(* parse_time on its own *)

DateStrings == {NoDate, EmptyDate, BadDate, OkDate(10, 0, 0), OkDate(21, 9, 3)}

DateStructs == {NoDate, BadDate, OkDate(11, 0, 0), OkDate(12, 0, 0)}

TimeEntries ==
    [published : DateStrings, updated : DateStrings, pubDate : DateStrings,
     published_parsed : DateStructs, updated_parsed : DateStructs]

InitTime ==
    /\ environ = <<"f", "a", "l", "s", "e">>
    /\ ENABLE_FULLTEXT = enable_fulltext(environ)
    /\ MainIdle
    /\ cat_in = IdleCat
    /\ cat_out = None
    /\ pt_in \in [entry : TimeEntries, clock : {19}]
    /\ pt_out = Pending

ParseTime ==
    /\ pt_out = Pending
    /\ pt_out' = parse_time(pt_in.entry, pt_in.clock)
    /\ UNCHANGED <<mainVars, cat_in, cat_out, pt_in>>

NextTime == ParseTime

SpecTime == InitTime /\ [][NextTime]_vars

----------------------------------------------------------------------------
(* Reading the output back *)

DigitVal(c) == Ord(c) - 48

\* The instant an ISO string of the fixed zone denotes, in tenths of an hour.
Instant(iso) ==
    (DigitVal(iso[1]) * 10 + DigitVal(iso[2])) * 10
    + (IF iso[3] = "." THEN DigitVal(iso[4]) ELSE 0)

NewestFirst(rows) ==
    \A i, j \in 1..Len(rows) :
        i < j => Instant(rows[i].published_at) >= Instant(rows[j].published_at)

UniqueIds(rows) ==
    \A i, j \in 1..Len(rows) : rows[i].id = rows[j].id => i = j

Min(a, b) == IF a < b THEN a ELSE b

RECURSIVE SumTo(_, _)
SumTo(f, n) == IF n = 0 THEN 0 ELSE f[n] + SumTo(f, n - 1)

Warned == \E k \in 1..Len(stderr) : stderr[k].kind = "warn"

AfterAggregation == pc \in {"aggregated", "enrich", "save", "done"}

\* The items fetch k of the loop returned, in feed order.
FetchedItems(k) == fetched[k].items

\* How many items of fetch k come before its item p when the newest comes
\* first and feed order breaks ties.
Rank(k, p) ==
    LET its == FetchedItems(k)
    IN  Cardinality({q \in 1..Len(its) :
            \/ Instant(its[q].published_at) > Instant(its[p].published_at)
            \/ /\ Instant(its[q].published_at) = Instant(its[p].published_at)
               /\ q < p})

----------------------------------------------------------------------------
(* C1 *)

\* C1: whatever the sources and their feeds, failed fetches included, the
\* items main aggregates, and the rows to_frame builds from them, come
\* newest first by published_at and no two of them share an id.
C1_SortedAndUnique ==
    /\ AfterAggregation => NewestFirst(items) /\ UniqueIds(items)
    /\ pc = "done" =>
        /\ NewestFirst(files.jsonl) /\ UniqueIds(files.jsonl)
        /\ NewestFirst(files.parquet) /\ UniqueIds(files.parquet)

\* Two rows of different age were written although a fetch failed.
C1_Witness ==
    /\ pc = "done"
    /\ Warned
    /\ Len(files.jsonl) >= 2
    /\ Instant(files.jsonl[1].published_at) > Instant(files.jsonl[2].published_at)

\* An aggregation was reached in which an id had been collected twice.
C1_WitnessDuplicate ==
    /\ pc = "aggregated"
    /\ Len(items) >= 2
    /\ ~UniqueIds(all_items)

----------------------------------------------------------------------------
(* C2 *)

\* What fetch k could contribute at most.
KeptAtMost(k) ==
    Min(per_source_limit, IF fetched[k].ok THEN Len(fetched[k].items) ELSE 0)

OutputBound ==
    Min(total_limit, SumTo([k \in 1..Len(fetched) |-> KeptAtMost(k)], Len(fetched)))

\* C2 as stated: the output never has more items than
\* min(total_limit, sum of min(per_source_limit, items fetched)).
C2_CountBounded_Original ==
    pc = "aggregated" => Len(items) <= OutputBound

\* C2, amended: with neither limit negative, the output never has more
\* items than min(total_limit, sum of min(per_source_limit, items fetched)),
\* a failed fetch counting as no items.
C2_CountBounded ==
    pc = "aggregated" /\ per_source_limit >= 0 /\ total_limit >= 0
        => Len(items) <= OutputBound

\* The bound is met, with a feed longer than the per-source limit and a
\* fetch that failed.
C2_Witness ==
    /\ pc = "aggregated"
    /\ per_source_limit >= 1
    /\ total_limit >= 1
    /\ Len(items) = OutputBound
    /\ \E k \in 1..Len(fetched) : fetched[k].ok /\ Len(fetched[k].items) > per_source_limit
    /\ \E k \in 1..Len(fetched) : ~fetched[k].ok

----------------------------------------------------------------------------
(* C3 *)

IdsOf(rows) == {rows[k].id : k \in 1..Len(rows)}

Occurrences(rows, id) == {k \in 1..Len(rows) : rows[k].id = id}

LatestOf(rows, id) ==
    CHOOSE t \in {Instant(rows[k].published_at) : k \in Occurrences(rows, id)} :
        \A k \in Occurrences(rows, id) : Instant(rows[k].published_at) <= t

SeveralAges(rows, id) ==
    \E i, j \in Occurrences(rows, id) : rows[i].published_at # rows[j].published_at

\* C3 as stated: an id kept several times with different published_at is
\* in the output exactly once, as its latest occurrence.
C3_LatestWins_Original ==
    pc = "aggregated" =>
        \A id \in IdsOf(all_items) :
            SeveralAges(all_items, id) =>
                /\ Cardinality(Occurrences(items, id)) = 1
                /\ \A k \in Occurrences(items, id) :
                       Instant(items[k].published_at) = LatestOf(all_items, id)

\* C3, amended: an id kept several times with different published_at is in
\* the output at most once; exactly once when total_limit is at least the
\* number of distinct ids kept; and where it is, it is the latest occurrence.
C3_LatestWins ==
    pc = "aggregated" =>
        \A id \in IdsOf(all_items) :
            SeveralAges(all_items, id) =>
                /\ Cardinality(Occurrences(items, id)) <= 1
                /\ total_limit >= Cardinality(IdsOf(all_items))
                       => Cardinality(Occurrences(items, id)) = 1
                /\ \A k \in Occurrences(items, id) :
                       Instant(items[k].published_at) = LatestOf(all_items, id)

\* Two sources each returned one item, of the same title and link and of
\* different age, the older one first; the output is the younger one.
C3_Witness ==
    /\ pc = "aggregated"
    /\ Len(all_items) = 2
    /\ all_items[1].id = all_items[2].id
    /\ all_items[1].source_name # all_items[2].source_name
    /\ Instant(all_items[1].published_at) < Instant(all_items[2].published_at)
    /\ items = <<all_items[2]>>

----------------------------------------------------------------------------
(* C4 *)

\* The run over the fetches from k on that did not fail.
RECURSIVE WithoutFailed(_, _)
WithoutFailed(k, all) ==
    IF k > Len(fetched) THEN all
    ELSE IF fetched[k].ok
         THEN WithoutFailed(k + 1,
                  all \o PySliceTo(SortByPublishedDesc(FetchedItems(k)), per_source_limit))
         ELSE WithoutFailed(k + 1, all)

\* The names in the warnings, and the names of the sources whose fetch failed.
RECURSIVE WarnedNames(_)
WarnedNames(k) ==
    IF k > Len(stderr) THEN <<>>
    ELSE (IF stderr[k].kind = "warn" THEN <<stderr[k].name>> ELSE <<>>)
         \o WarnedNames(k + 1)

RECURSIVE FailedNames(_)
FailedNames(k) ==
    IF k > Len(fetched) THEN <<>>
    ELSE (IF fetched[k].ok THEN <<>> ELSE <<sources[k].name>>)
         \o FailedNames(k + 1)

\* C4: a fetch that raises contributes nothing and is warned about by name;
\* the run goes on to the other sources and to the write; and what the
\* other sources contribute is what they contribute without the failed one.
C4_FailedSourceSkipped ==
    /\ pc \in {"fetch", "aggregated"} =>
        LET others == WithoutFailed(1, <<>>)
        IN  /\ all_items = others
            /\ WarnedNames(1) = FailedNames(1)
            /\ pc = "aggregated" =>
                   items = PySliceTo(DedupById(SortByPublishedDesc(others), {}),
                                     total_limit)
    /\ Warned =>
        /\ pc \in {"fetch", "aggregated", "enrich", "save", "done"}
        /\ exit_status = (IF pc = "done" THEN 0 ELSE -1)
        /\ pc = "done" => files.written

\* The first fetch failed, the second did not, and its rows were written.
C4_Witness ==
    /\ pc = "done"
    /\ stderr = <<[kind |-> "warn", name |-> <<"A">>]>>
    /\ Len(files.jsonl) >= 2
    /\ \A k \in 1..Len(files.jsonl) : files.jsonl[k].source_name = <<"B">>

----------------------------------------------------------------------------
(* C5 *)

MissingOrEmpty == {NoFile, EmptyFile, NoSourcesKey, EmptySources}

\* C5 as stated: with no configuration file, an empty one, one without a
\* `sources` key or one with an empty `sources` list, load_sources returns
\* an empty list without raising, and main exits with a non-zero status and
\* a diagnostic on stderr before any fetch and before any output.
C5_EmptyConfigExits ==
    pc # "start" /\ config \in MissingOrEmpty =>
        /\ pc = "exited"
        /\ sources = <<>>
        /\ exit_status > 0
        /\ stderr = <<[kind |-> "no_sources", name |-> <<>>]>>
        /\ fetched = <<>>
        /\ files = NoFiles

----------------------------------------------------------------------------
(* C6 *)

\* x is item p of fetch k, and fewer than n items of that fetch come before it.
AmongNewest(x, n) ==
    \E k \in 1..Len(fetched) :
        /\ fetched[k].ok
        /\ \E p \in 1..Len(fetched[k].items) :
               FetchedItems(k)[p] = x /\ Rank(k, p) < n

\* C6 as stated: every item of the output is among the per_source_limit
\* newest items of the fetch it came from, feed order breaking ties.
C6_AmongNewest_Original ==
    pc = "aggregated" =>
        \A i \in 1..Len(items) : AmongNewest(items[i], per_source_limit)

\* C6, amended: with per_source_limit not negative, every item of the
\* output is among the per_source_limit newest items of the fetch it came
\* from, feed order breaking ties.
C6_AmongNewest ==
    pc = "aggregated" /\ per_source_limit >= 0 =>
        \A i \in 1..Len(items) : AmongNewest(items[i], per_source_limit)

\* A feed of two items of the same age and different ids met a limit of
\* one, and the one kept is in the output.
C6_Witness ==
    /\ pc = "aggregated"
    /\ per_source_limit = 1
    /\ Len(items) >= 1
    /\ \E k \in 1..Len(fetched) :
        /\ fetched[k].ok
        /\ Len(fetched[k].items) = 2
        /\ FetchedItems(k)[1].published_at = FetchedItems(k)[2].published_at
        /\ FetchedItems(k)[1].id # FetchedItems(k)[2].id
        /\ items[1] = FetchedItems(k)[1]

----------------------------------------------------------------------------
(* C7 *)

\* Values of FETCH_FULLTEXT that do not switch enrichment on.
DisabledValues == {<<"f", "a", "l", "s", "e">>, <<"1">>}

\* C7: with FETCH_FULLTEXT disabled, trafilatura is never called and every
\* row written has a null content.
C7_DisabledNoContent ==
    environ \in DisabledValues =>
        /\ extract_log = <<>>
        /\ \A k \in 1..Len(items) :
               "content" \in DOMAIN items[k] => items[k].content = None
        /\ \A k \in 1..Len(files.jsonl) : files.jsonl[k].content = None
        /\ \A k \in 1..Len(files.parquet) : files.parquet[k].content = None

\* Rows with a link were written with FETCH_FULLTEXT set to "1".
C7_Witness ==
    /\ pc = "done"
    /\ environ = <<"1">>
    /\ Len(files.jsonl) >= 2
    /\ \E k \in 1..Len(files.jsonl) : files.jsonl[k].url # <<>>

----------------------------------------------------------------------------
(* C9 *)

CallsAt(pos) == {k \in 1..Len(extract_log) : extract_log[k].pos = pos}

HasContent(it) == "content" \in DOMAIN it /\ it.content # None

\* C9: with enrichment on, extraction is tried at most once per item, and
\* only for an item below FULLTEXT_LIMIT that has a URL; content is set only
\* from an extraction that returned text; a failed extraction leaves the
\* content absent and the run going; and an item at or beyond the limit is
\* left as it was.
C9_EnrichBounded ==
    ENABLE_FULLTEXT /\ pc \in {"enrich", "save", "done"} =>
        /\ Len(items) = Len(aggregated)
        /\ exit_status = (IF pc = "done" THEN 0 ELSE -1)
        /\ \A k \in 1..Len(extract_log) : extract_log[k].pos \in 0..(Len(items) - 1)
        /\ \A pos \in 0..(Len(items) - 1) :
            LET it == items[pos + 1]
                was == aggregated[pos + 1]
            IN  /\ Cardinality(CallsAt(pos)) <= 1
                /\ CallsAt(pos) # {} => pos < ft_limit /\ it.url # <<>>
                /\ HasContent(it) =>
                       \E k \in CallsAt(pos) :
                           /\ extract_log[k].outcome = "body"
                           /\ it.content = <<"b", "o", "d", "y">>
                /\ \A k \in CallsAt(pos) :
                       extract_log[k].outcome # "body" => ~HasContent(it)
                /\ \A f \in DOMAIN was : it[f] = was[f]
                /\ pos >= ft_limit =>
                       it = (IF pc = "done" THEN SetDefaults(was) ELSE was)

\* Of two items the first was given its content and the second, at the
\* limit, was not looked at.
C9_Witness ==
    /\ pc = "save"
    /\ ft_limit = 1
    /\ Len(items) = 2
    /\ HasContent(items[1])
    /\ items[2].url # <<>>
    /\ items[2] = aggregated[2]

\* An extraction failed, an item without a URL was passed over, and the
\* rows were written.
C9_WitnessFailure ==
    /\ pc = "done"
    /\ ENABLE_FULLTEXT
    /\ Len(items) = 2
    /\ ft_limit = 2
    /\ \E k \in 1..Len(extract_log) : extract_log[k].outcome = "raise"
    /\ \E pos \in 0..1 : items[pos + 1].url = <<>> /\ CallsAt(pos) = {}

----------------------------------------------------------------------------
(* C8 *)

Groups == <<POLITICS_KW, ECONOMY_KW, SOCIETY_KW, CULTURE_KW, ITSCI_KW, SPORTS_KW>>

Labels == << <<"politics">>, <<"economy">>, <<"society">>, <<"culture">>,
             <<"it_science">>, <<"sports">> >>

CatText == cat_in.title \o <<" ">> \o cat_in.summary

\* The groups a keyword of which is in the text.
Matching ==
    {g \in 1..Len(Groups) :
        \E k \in 1..Len(Groups[g]) : Contains(CatText, Groups[g][k])}

\* C8: guess_category returns a source's override as it is when there is
\* one (a non-empty string); otherwise the label of the first group, in the
\* order politics, economy, society, culture, it_science, sports, that has a
\* keyword in the text, and `general` exactly when no group has.
C8_CategoryPriority ==
    cat_out # None =>
        /\ Truthy(cat_in.src_category) => cat_out = cat_in.src_category
        /\ ~Truthy(cat_in.src_category) =>
            /\ Matching = {} <=> cat_out = <<"general">>
            /\ \A g \in Matching :
                   (\A h \in Matching : g <= h) => cat_out = Labels[g]

\* A text with keywords of three groups and no override was labelled politics.
C8_Witness ==
    /\ cat_out = <<"politics">>
    /\ cat_in.src_category = None
    /\ Cardinality(Matching) >= 3

\* An override outside the closed set was returned over a matching text.
C8_WitnessOverride ==
    /\ cat_out = <<"custom">>
    /\ Matching # {}

----------------------------------------------------------------------------
(* C10 *)

Candidates ==
    <<pt_in.entry.published, pt_in.entry.updated, pt_in.entry.pubDate,
      pt_in.entry.published_parsed, pt_in.entry.updated_parsed>>

Parses(c) == Candidates[c].kind = "ok"

\* What candidate c denotes in the fixed zone: a date string with its own
\* offset, a structured tuple as UTC.
InFixedZone(c) ==
    IF c <= 3
    THEN [wall |-> Candidates[c].wall - Candidates[c].off + 9, off |-> 9,
          us |-> Candidates[c].us]
    ELSE [wall |-> Candidates[c].wall + 9, off |-> 9, us |-> 0]

\* C10: parse_time never raises and always returns a timestamp of the fixed
\* zone: that of the first of published, updated, pubDate, published_parsed,
\* updated_parsed that is there and parses, and the current time only when
\* none is.
C10_FirstCandidateWins ==
    pt_out # Pending =>
        /\ pt_out # Raised
        /\ pt_out.off = 9
        /\ \A c \in 1..5 :
               Parses(c) /\ (\A b \in 1..(c - 1) : ~Parses(b))
                   => pt_out = InFixedZone(c)
        /\ (\A c \in 1..5 : ~Parses(c)) <=> pt_out = [wall |-> pt_in.clock, off |-> 9, us |-> 5]

\* published did not parse, updated was empty, and pubDate was returned
\* although both tuples were good.
C10_Witness ==
    /\ pt_out # Pending
    /\ pt_in.entry.published = BadDate
    /\ pt_in.entry.updated = EmptyDate
    /\ pt_in.entry.pubDate = OkDate(10, 0, 0)
    /\ pt_in.entry.published_parsed = OkDate(11, 0, 0)
    /\ pt_out = [wall |-> 19, off |-> 9, us |-> 0]

\* Nothing parsed and the current time was returned.
C10_WitnessFallback ==
    /\ pt_out = [wall |-> 19, off |-> 9, us |-> 5]
    /\ pt_in.entry.published = BadDate
    /\ pt_in.entry.updated_parsed = BadDate

====
